---- MODULE Spec2Model ----
(***************************************************************************)
(* PatchOpticalFlow (include/basalt/optical_flow/patch_optical_flow.h):    *)
(* the worker thread processingLoop, its input queue, depth-guess channel  *)
(* and output queue, and the per-frame procedure processFrame with         *)
(* trackPoints, addPoints and filterPoints.                                *)
(*                                                                         *)
(* Heap objects are modelled by index: bundles[i] is the i-th              *)
(* OpticalFlowInput the feeder allocated, results[i] the i-th              *)
(* OpticalFlowResult the worker allocated; the pointer value 0 is nullptr. *)
(* Image contents are not modelled.  What the code computes from an image  *)
(* (the corners detectKeypoints finds, whether trackPoint succeeds for a   *)
(* keypoint, whether a pair passes the epipolar test) is an input of the   *)
(* frame, drawn with \E when the frame is processed; a pose, a patch and a *)
(* descriptor are symbolic values naming the image they were computed on.  *)
(*                                                                         *)
(* Beside the sessions (Spec, LiveSpec, SpecDepth), trackPoints and        *)
(* filterPoints are examined as single calls (SpecTrack, SpecFilter), the  *)
(* first frame with the images' outcomes fixed beforehand (SpecFirst), and *)
(* one dataset run twice (SpecTwice); the variable call holds what such a  *)
(* call is given and what it leaves.  In the same way: the frame after the *)
(* first (SpecSecond), the matching guess of compute_func (SpecGuess),     *)
(* trackPoint and trackPointAtLevel (SpecPoint, SpecLevel), the loop of    *)
(* trackPoints run by parallel tasks (SpecParallel), and feed_images step  *)
(* by step (SpecFeed).                                                     *)
(***************************************************************************)
EXTENDS Integers, Sequences, FiniteSets, TLC

\* ---------------------------------------------------------------- bounds
\* Frame bundles the feeder pushes before the null sentinel, at most.
MaxFrames == 3
\* Keypoints detected in a session, at most: detectKeypoints returns no more
\* corners than are left of them.
MaxKeypoints == 2
\* Values pushed on the depth channel in a session, at most.
MaxDepthPushes == 2
\* Frame bundles pushed in the sessions that have a depth producer, at most.
MaxDepthFrames == 2

\* ------------------------------------------------------ program constants
\* input_queue.set_capacity(10)
QueueCapacity == 10
\* depth_guess = config.optical_flow_matching_default_depth; the k-th value
\* pushed on the channel is k, so the default differs from every pushed one.
DefaultDepth == 0
\* t_ns(-1) in the constructor's initialiser list
InitialTns == -1

\* Configurations explored: calib.intrinsics.size(), optical_flow_skip_frames,
\* optical_flow_levels, and whether the caller attached an output queue.
\* first_t_ns is the dataset's first image timestamp; the following ones
\* increase by one.
Setups ==
  { [num_cams |-> 2, optical_flow_skip_frames |-> 2, optical_flow_levels |-> 1,
     attached |-> TRUE, first_t_ns |-> 1],
    [num_cams |-> 1, optical_flow_skip_frames |-> 1, optical_flow_levels |-> 0,
     attached |-> TRUE, first_t_ns |-> -1],
    [num_cams |-> 1, optical_flow_skip_frames |-> 2, optical_flow_levels |-> 0,
     attached |-> FALSE, first_t_ns |-> 0] }

\* The null pointer.
Null == 0
\* A depth_guess field nothing has written yet; <<d>> once d is stored.
Unset == <<>>

VARIABLES
  config,             \* the setup: one of Setups
  output_attached,    \* output_queue != nullptr
  bundles,            \* heap of OpticalFlowInput objects
  input_queue,        \* tbb::concurrent_bounded_queue<OpticalFlowInput::Ptr>
  input_depth_queue,  \* tbb::concurrent_queue<double>
  output_queue,       \* every item pushed on *output_queue, in order: pointers
                      \* to results, 0 = nullptr (its consumer is not modelled)
  feeder,             \* feed_images: "feeding" or "done"
  depth_pushed,       \* values pushed on the depth channel so far
  pc,                 \* processingLoop: "drain", "pop", "got", "done", "crashed"
  input_ptr,          \* processingLoop's local input_ptr
  depth_guess,
  t_ns,
  frame_counter,
  last_keypoint_id,
  patches,            \* KeypointId -> patch stack
  results,            \* heap of OpticalFlowResult objects
  transforms,         \* pointer into results
  pyramid,
  old_pyramid,        \* the bundle whose images the pyramids were built from
  trace,              \* history: one entry per bundle popped by the worker
  call                \* a single call of one procedure, examined on its own:
                      \* what it is given and what it leaves (<<>> in a session)

vars == <<config, output_attached, bundles, input_queue, input_depth_queue,
          output_queue, feeder, depth_pushed, pc, input_ptr, depth_guess,
          t_ns, frame_counter, last_keypoint_id, patches, results, transforms,
          pyramid, old_pyramid, trace, call>>

feederVars == <<bundles, input_queue, feeder>>
trackerVars == <<t_ns, frame_counter, last_keypoint_id, patches, results,
                 transforms, pyramid, old_pyramid>>

Cams == 0 .. (config.num_cams - 1)

EmptyMap == [id \in {} |-> Null]

\* ------------------------------------------------------------- feed_images
\* data->t_ns = vio_dataset->get_image_timestamps()[i], for the k-th bundle
TimeStamp(k) == config.first_t_ns + (k - 1)

\* data->img_data = vio_dataset->get_image_data(data->t_ns): per camera
\* whether the image is there (TRUE) or null; at most one is null.
ImagePayloads ==
  {img \in [Cams -> BOOLEAN] : Cardinality({c \in Cams : ~img[c]}) <= 1}

NewBundle(t, img, d) ==
  [t_ns |-> t, img |-> img, depth_guess |-> Unset, times |-> <<>>,
   depth_at_push |-> d]

\* The most recent value pushed on the depth channel (history).
LatestDepthPushed == IF depth_pushed = 0 THEN DefaultDepth ELSE depth_pushed

\* opt_flow_ptr->input_queue.push(data): blocks while the queue is full.
\* The loop ends after max_frames bundles at the latest.
PushBundle(max_frames) ==
  /\ feeder = "feeding"
  /\ Len(bundles) < max_frames
  /\ Len(input_queue) < QueueCapacity
  /\ \E img \in ImagePayloads :
       /\ bundles' = Append(bundles, NewBundle(TimeStamp(Len(bundles) + 1), img,
                                               LatestDepthPushed))
       /\ input_queue' = Append(input_queue, Len(bundles) + 1)
  /\ UNCHANGED <<config, call, output_attached, input_depth_queue, output_queue,
                 feeder, depth_pushed, pc, input_ptr, depth_guess, trackerVars, trace>>

FeedImage == PushBundle(MaxFrames)

FeedImageDepth == PushBundle(MaxDepthFrames)

\* opt_flow_ptr->input_queue.push(nullptr), after the loop ended or broke.
FeedNull ==
  /\ feeder = "feeding"
  /\ Len(input_queue) < QueueCapacity
  /\ input_queue' = Append(input_queue, Null)
  /\ feeder' = "done"
  /\ UNCHANGED <<config, call, output_attached, bundles, input_depth_queue,
                 output_queue, depth_pushed, pc, input_ptr, depth_guess,
                 trackerVars, trace>>

\* vio->opt_flow_depth_guess_queue->push(...)
PushDepth ==
  /\ depth_pushed < MaxDepthPushes
  /\ depth_pushed' = depth_pushed + 1
  /\ input_depth_queue' = Append(input_depth_queue, depth_pushed + 1)
  /\ UNCHANGED <<config, call, output_attached, feederVars, output_queue, pc,
                 input_ptr, depth_guess, trackerVars, trace>>

\* ------------------------------------------------------------ trackPoints
Restrict(f, S) == [x \in S |-> f[x]]

\* The pose trackPoint estimates in camera cam of the images of bundle b.
TrackedPose(b, cam) == [img |-> b, cam |-> cam]

\* Variant of TrackedKeypoint: the flag is copied from the source keypoint.
TrackedKeypointKeepsFlag(kp, b, cam2) ==
  [pose |-> TrackedPose(b, cam2), descriptor |-> kp.descriptor,
   detected_by_opt_flow |-> kp.detected_by_opt_flow]

\* The loop body's last statement: result[id] gets the tracked pose, the
\* source's descriptor and detected_by_opt_flow = true.
TrackedKeypoint(kp, b, cam2) ==
  [pose |-> TrackedPose(b, cam2), descriptor |-> kp.descriptor,
   detected_by_opt_flow |-> TRUE]

\* keypoint_map_2 after trackPoints(pyr_1, pyr_2, keypoint_map_1,
\* keypoint_map_2, cam1, cam2): ok is the set of ids for which the prior is
\* in bounds, both trackPoint calls succeed and dist2 is below the tolerance;
\* b is the bundle pyr_2 was built from.
trackPoints(keypoint_map_1, ok, b, cam2) ==
  [id \in (DOMAIN keypoint_map_1) \cap ok |->
     TrackedKeypoint(keypoint_map_1[id], b, cam2)]

\* Variant of CurrentKeypoints: the first result's map is read, as if the
\* member transforms were never moved on.
FirstKeypoints(res, tr, c) == res[1].keypoints[c]

\* transforms->keypoints[i]: camera c's map in the result the member
\* transforms points to.
CurrentKeypoints(res, tr, c) == res[tr].keypoints[c]

\* transforms->input_images->depth_guess = depth, the statement of
\* trackPoints that writes outside its arguments: tr is the value of the
\* member transforms when trackPoints runs.
StoreGuess(bs, res, tr, depth) ==
  [bs EXCEPT ![res[tr].input_images].depth_guess = <<depth>>]

\* pyr_2.lvl(0).w and pyr_2.lvl(0).h: the level-0 image is one pixel wide
\* and one high, so that each of the four bounds tests has a point failing it.
LevelZeroW == 1
LevelZeroH == 1

\* config.optical_flow_max_recovered_dist2
MaxRecoveredDist2 == 2

\* Translations are pairs of whole pixels.
Minus(a, b) == <<a[1] - b[1], a[2] - b[2]>>

squaredNorm(a) == a[1] * a[1] + a[2] * a[2]

\* t2(0) >= 0 && t2(1) >= 0 && t2(0) < pyr_2.lvl(0).w && t2(1) < pyr_2.lvl(0).h
InLevelZero(t2) ==
  t2[1] >= 0 /\ t2[2] >= 0 /\ t2[1] < LevelZeroW /\ t2[2] < LevelZeroH

\* Variant of RecoveredClose: the tolerance itself is accepted.
RecoveredCloseInclusive(dist2, max_recovered_dist2) ==
  dist2 <= max_recovered_dist2

\* dist2 < config.optical_flow_max_recovered_dist2
RecoveredClose(dist2, max_recovered_dist2) == dist2 < max_recovered_dist2

\* The body of compute_func for one keypoint: TRUE when it writes result[id].
\* m is what the images decide for the keypoint: its translation t1 in the
\* source, the offset off of the matching guess, whether trackPoint succeeds
\* forward and backward, and the translation t1_recovered the backward track
\* ends on (off added back).
compute_func(m, max_recovered_dist2) ==
  LET t2 == Minus(m.t1, m.off)
  IN  IF ~InLevelZero(t2) THEN FALSE
      ELSE IF ~m.forward THEN FALSE
      ELSE IF ~m.backward THEN FALSE
      ELSE RecoveredClose(squaredNorm(Minus(m.t1, m.t1_recovered)),
                          max_recovered_dist2)

\* The ids whose keypoints compute_func writes.
Written(found, max_recovered_dist2) ==
  {id \in DOMAIN found : compute_func(found[id], max_recovered_dist2)}

\* MatchingGuessType, the values of config.optical_flow_matching_guess_type
MatchingGuessTypes == {"SAME_PIXEL", "REPROJ_FIX_DEPTH", "REPROJ_AVG_DEPTH"}

Plus(a, b) == <<a[1] + b[1], a[2] + b[2]>>

\* Variant of use_depth: the guess type is not looked at.
use_depthAnyGuess(cam1, cam2, guess_type) == cam1 # cam2

\* matching = cam1 != cam2; guess_requires_depth = guess_type != SAME_PIXEL;
\* use_depth = matching && guess_requires_depth
use_depth(cam1, cam2, guess_type) ==
  LET matching == cam1 # cam2
      guess_requires_depth == guess_type # "SAME_PIXEL"
  IN  matching /\ guess_requires_depth

\* Eigen::Vector2f off{0, 0}; if (use_depth) off = calib.viewOffset(t1, depth,
\* cam1, cam2): view_offset is the value viewOffset returns for the keypoint.
GuessOffset(cam1, cam2, guess_type, view_offset) ==
  IF use_depth(cam1, cam2, guess_type) THEN view_offset ELSE <<0, 0>>

\* The translations compute_func goes through for one keypoint whose prior is
\* in bounds and whose forward track succeeds: g holds the cameras, the guess
\* type, the source translation t1, viewOffset's value and the displacement
\* moved by which the forward trackPoint changes transform_2.
GuessStages(g) ==
  LET off == GuessOffset(g.cam1, g.cam2, g.guess_type, g.view_offset)
      \* t2 -= off
      forward_start == Minus(g.t1, off)
      \* trackPoint(pyr_2, patch_vec, transform_2)
      forward_end == Plus(forward_start, g.moved)
      \* transform_1_recovered = transform_2; t1_recovered += off
      backward_start == Plus(forward_end, off)
  IN  [off |-> off, forward_start |-> forward_start,
       forward_end |-> forward_end, backward_start |-> backward_start]

\* ------------------------------------------------------ trackPointAtLevel
\* A warp (Eigen::AffineCompact2f) is a translation in whole pixels and a
\* linear part, a rotation by a number of quarter turns; v turned by q
\* quarter turns:
Rotate(v, q) ==
  CASE q % 4 = 0 -> v
    [] q % 4 = 1 -> <<-v[2], v[1]>>
    [] q % 4 = 2 -> <<-v[1], -v[2]>>
    [] OTHER -> <<v[2], -v[1]>>

Abs(x) == IF x < 0 THEN -x ELSE x

\* const int filter_margin = 2
filter_margin == 2

\* The bound 1e6 of the increment's infinity norm.
MaxIncrement == 1000000

\* img_2.InBounds(p, border): p is inside the image and at least border
\* pixels off each of its borders.
InBounds(img, p, border) ==
  /\ border <= p[1] /\ p[1] < img.w - border
  /\ border <= p[2] /\ p[2] < img.h - border

\* inc.array().isFinite().all(): an increment is a record of its translation
\* t and its rotation r (quarter turns), or has a component that is not a
\* number.
isFinite(inc) == inc.finite

\* inc.lpNorm<Eigen::Infinity>()
lpNormInfinity(inc) ==
  LET a == Abs(inc.t[1])
      b == Abs(inc.t[2])
      c == Abs(inc.r)
      ab == IF a >= b THEN a ELSE b
  IN  IF ab >= c THEN ab ELSE c

\* Variant of SmallIncrement: the bound itself is accepted.
SmallIncrementInclusive(inc) == lpNormInfinity(inc) <= MaxIncrement

\* inc.lpNorm<Eigen::Infinity>() < 1e6; a comparison with a component that
\* is not a number is false.
SmallIncrement(inc) == lpNormInfinity(inc) < MaxIncrement

\* transform *= SE2::exp(inc).matrix(), for an increment that is a pure
\* translation or a pure rotation: (A, b) * (R, t) = (A R, A t + b).
Compose(transform, inc) ==
  [translation |-> Plus(transform.translation,
                        Rotate(inc.t, transform.linear)),
   linear |-> (transform.linear + inc.r) % 4]

\* One pass of the loop body with patch_valid true on entry: o tells whether
\* dp.residual could sample the patch and the increment computed from the
\* residual.  Gives patch_valid and the transform after the pass, and
\* (history) whether the increment was composed.
Iteration(img_2, transform, o) ==
  IF ~o.sampled
  THEN [patch_valid |-> FALSE, transform |-> transform, composed |-> FALSE]
  ELSE IF ~(isFinite(o.inc) /\ SmallIncrement(o.inc))
  THEN [patch_valid |-> FALSE, transform |-> transform, composed |-> FALSE]
  ELSE LET moved == Compose(transform, o.inc)
       IN  [patch_valid |-> InBounds(img_2, moved.translation, filter_margin),
            transform |-> moved, composed |-> TRUE]

\* for (iteration = 0; patch_valid && iteration < max_iterations;
\* iteration++), from the state st = [patch_valid, transform, log] reached
\* before pass number iteration; outcome[iteration + 1] is what the image
\* decides in that pass, log (history) has one entry per pass run.
RECURSIVE trackPointAtLevelFrom(_, _, _, _, _)
trackPointAtLevelFrom(st, img_2, outcome, iteration, optical_flow_max_iterations) ==
  IF ~(st.patch_valid /\ iteration < optical_flow_max_iterations) THEN st
  ELSE LET pass == Iteration(img_2, st.transform, outcome[iteration + 1])
       IN  trackPointAtLevelFrom(
             [patch_valid |-> pass.patch_valid, transform |-> pass.transform,
              log |-> Append(st.log, [composed |-> pass.composed,
                                      transform |-> pass.transform])],
             img_2, outcome, iteration + 1, optical_flow_max_iterations)

\* trackPointAtLevel(img_2, dp, transform): the value returned
\* (patch_valid) and the transform it leaves.
trackPointAtLevel(img_2, transform, outcome, optical_flow_max_iterations) ==
  trackPointAtLevelFrom([patch_valid |-> TRUE, transform |-> transform,
                         log |-> <<>>],
                        img_2, outcome, 0, optical_flow_max_iterations)

\* -------------------------------------------------------------- trackPoint
\* const Scalar scale = 1 << level
Scale(level) == 2 ^ level

\* transform.translation() /= scale.  Translations are whole pixels, and a
\* translation given to trackPoint is a multiple of 2^optical_flow_levels
\* pixels, so that the quotient is exact here as it is in floating point.
Divided(transform, scale) ==
  [transform EXCEPT !.translation = <<@[1] \div scale, @[2] \div scale>>]

\* transform.translation() *= scale
Multiplied(transform, scale) ==
  [transform EXCEPT !.translation = <<@[1] * scale, @[2] * scale>>]

\* pyr.lvl(level) of a pyramid whose level-0 image is w by h
Lvl(pyr, level) == [w |-> pyr.w \div Scale(level), h |-> pyr.h \div Scale(level)]

\* Variant of LoopGoesOn: the loop does not look at patch_valid.
LoopGoesOnToLevelZero(level, patch_valid) == level >= 0

\* level >= 0 && patch_valid
LoopGoesOn(level, patch_valid) == level >= 0 /\ patch_valid

\* for (level = optical_flow_levels; level >= 0 && patch_valid; level--),
\* from the state st = [patch_valid, transform, log] reached before the pass
\* at level: valid[level] is patch_vec[level].valid, outcome[level] what the
\* level's image decides in trackPointAtLevel; log (history) has one entry
\* per level visited.
RECURSIVE trackPointFrom(_, _, _, _, _, _)
trackPointFrom(st, pyr, valid, outcome, level, optical_flow_max_iterations) ==
  IF ~LoopGoesOn(level, st.patch_valid) THEN st
  ELSE LET scale == Scale(level)
           scaled == Divided(st.transform, scale)
           patch_valid == st.patch_valid /\ valid[level]
           at_level == IF patch_valid
                       THEN trackPointAtLevel(Lvl(pyr, level), scaled,
                                              outcome[level],
                                              optical_flow_max_iterations)
                       ELSE [patch_valid |-> FALSE, transform |-> scaled,
                             log |-> <<>>]
           left == Multiplied(at_level.transform, scale)
       IN  trackPointFrom(
             [patch_valid |-> patch_valid /\ at_level.patch_valid,
              transform |-> left,
              log |-> Append(st.log,
                             [level |-> level, before |-> st.transform,
                              scaled |-> scaled, called |-> patch_valid,
                              tracked |-> at_level.transform,
                              after |-> left,
                              patch_valid |-> patch_valid /\ at_level.patch_valid])],
             pyr, valid, outcome, level - 1, optical_flow_max_iterations)

\* trackPoint(pyr, patch_vec, transform): the value returned (patch_valid)
\* and the transform it leaves; levels is config.optical_flow_levels,
\* max_iterations config.optical_flow_max_iterations.
trackPoint(pyr, valid, transform, outcome, levels, max_iterations) ==
  trackPointFrom([patch_valid |-> TRUE, transform |-> transform, log |-> <<>>],
                 pyr, valid, outcome, levels, max_iterations)

\* -------------------------------------------------------------- addPoints
\* Variant of PatchLevels: the loop starts at level 1.
PatchLevelsFromOne(levels) == 1 .. levels

\* The patch stack built for corner i of bundle b: one patch per level
\* l = 0 .. optical_flow_levels, in that order.
PatchLevels(levels) == 0 .. levels

RECURSIVE NewPatches(_, _, _, _)
NewPatches(b, i, l, levels) ==
  IF l \notin PatchLevels(levels) THEN <<>>
  ELSE <<[img |-> b, corner |-> i, lvl |-> l]>> \o NewPatches(b, i, l + 1, levels)

\* Eigen::aligned_vector<PatchT>& p = patches[last_keypoint_id]: the entry
\* of the id, created empty when the map has none.
PatchEntry(pt, id) == IF id \in DOMAIN pt THEN pt[id] ELSE <<>>

Put(f, k, v) == [x \in (DOMAIN f) \cup {k} |-> IF x = k THEN v ELSE f[x]]

\* Variant of NextKeypointId: the counter is not advanced.
NextKeypointIdStuck(id) == id

\* Variant of NextKeypointId: a counter that wraps and gives old ids again.
NextKeypointIdWrap(id) == (id + 1) % MaxKeypoints

\* last_keypoint_id++
NextKeypointId(id) == id + 1

DetectedKeypoint(b, i) ==
  [pose |-> [img |-> b, cam |-> 0], descriptor |-> [img |-> b, corner |-> i],
   detected_by_opt_flow |-> FALSE]

\* The loop over kd.corners, from corner i to corner n: st holds patches,
\* keypoints.at(0), new_kpts0 and last_keypoint_id, and (history) the ids
\* given to the corners so far, in order.
RECURSIVE AddCorners(_, _, _, _, _)
AddCorners(st, b, i, n, levels) ==
  IF i > n THEN st
  ELSE AddCorners(
         [patches |-> Put(st.patches, st.last_keypoint_id,
                          PatchEntry(st.patches, st.last_keypoint_id)
                            \o NewPatches(b, i, 0, levels)),
          kpts0 |-> Put(st.kpts0, st.last_keypoint_id, DetectedKeypoint(b, i)),
          new_kpts0 |-> Put(st.new_kpts0, st.last_keypoint_id,
                            DetectedKeypoint(b, i)),
          last_keypoint_id |-> NextKeypointId(st.last_keypoint_id),
          assigned |-> Append(st.assigned, st.last_keypoint_id)],
         b, i + 1, n, levels)

\* transforms->keypoints.at(1).emplace(kv) for every kv of new_kpts1: a key
\* already present keeps its entry.
EmplaceAll(kpts1, new_kpts1) ==
  [id \in (DOMAIN kpts1) \cup (DOMAIN new_kpts1) |->
     IF id \in DOMAIN kpts1 THEN kpts1[id] ELSE new_kpts1[id]]

\* ----------------------------------------------------------- filterPoints
\* Widths in bits of KeypointId (64 in the program) and of int (32 in the
\* program), scaled down together: what the conversions below depend on is
\* that an int is narrower than a KeypointId.  The ids of a session stay
\* below 2^(IntBits - 1).
KeypointIdBits == 5
IntBits == 3

\* The number of values of an int and of a KeypointId.
IntValues == 2 ^ IntBits
KeypointIdValues == 2 ^ KeypointIdBits

\* int id = <a KeypointId>: the low IntBits bits, read as two's complement.
ToInt(id) ==
  LET low == id % IntValues
  IN  IF 2 * low >= IntValues THEN low - IntValues ELSE low

\* The int converted back to the key type for erase(id).
ToKeypointId(i) == i % KeypointIdValues

\* for (int id : lm_to_remove) keypoints.at(1).erase(id): the key erased for
\* the element id of lm_to_remove.
ErasedKey(id) == ToKeypointId(ToInt(id))

\* config.optical_flow_epipolar_error
EpipolarError == 1

\* Variant of Offends: one successful unprojection is taken for two.
OffendsEitherUnprojected(g, optical_flow_epipolar_error) ==
  IF g.p3d0_success \/ g.p3d1_success
  THEN g.epipolar_error > optical_flow_epipolar_error
  ELSE TRUE

\* The test of the second loop for one candidate: g holds p3d0_success,
\* p3d1_success and epipolar_error = |p3d0^T E p3d1|.
Offends(g, optical_flow_epipolar_error) ==
  IF g.p3d0_success /\ g.p3d1_success
  THEN g.epipolar_error > optical_flow_epipolar_error
  ELSE TRUE

\* The candidates the second loop puts in lm_to_remove.
Offenders(geometry, optical_flow_epipolar_error) ==
  {id \in DOMAIN geometry : Offends(geometry[id], optical_flow_epipolar_error)}

\* Variant of filterPoints: an offender is removed from camera 0 as well.
filterPointsBothCameras(kp, num_cams, bad) ==
  IF num_cams < 2 THEN kp
  ELSE LET lm_to_remove == (DOMAIN kp[1]) \cap (DOMAIN kp[0]) \cap bad
           erased == {ErasedKey(id) : id \in lm_to_remove}
       IN  [kp EXCEPT ![0] = Restrict(kp[0], (DOMAIN kp[0]) \ erased),
                      ![1] = Restrict(kp[1], (DOMAIN kp[1]) \ erased)]

\* keypoints after filterPoints: bad is the set of ids whose unprojection
\* fails or whose epipolar error exceeds optical_flow_epipolar_error.
filterPoints(kp, num_cams, bad) ==
  IF num_cams < 2 THEN kp
  ELSE LET lm_to_remove == (DOMAIN kp[1]) \cap (DOMAIN kp[0]) \cap bad
           erased == {ErasedKey(id) : id \in lm_to_remove}
       IN  [kp EXCEPT ![1] = Restrict(kp[1], (DOMAIN kp[1]) \ erased)]

\* ----------------------------------------------------------- processFrame
\* Variant of MissingImage: only the first camera's image is tested.
MissingImageFirstOnly(bundle) == ~bundle.img[0]

\* for (const auto& v : new_img_vec->img_data) if (!v.img.get()) return;
MissingImage(bundle) == \E c \in DOMAIN bundle.img : ~bundle.img[c]

\* if (t_ns < 0): the first-frame branch
IsBootstrap(t) == t < 0

\* Variant of EmitDue: the counter is tested after its increment.
EmitDueOffByOne(attached, fc, skip) == attached /\ (fc + 1) % skip = 0

\* output_queue && frame_counter % config.optical_flow_skip_frames == 0
EmitDue(attached, fc, skip) == attached /\ fc % skip = 0

\* Variant of PushResult: the result is pushed twice.
PushResultTwice(q, tr) == Append(Append(q, tr), tr)

\* output_queue->push(transforms)
PushResult(q, tr) == Append(q, tr)

AddTime(bs, b, what) == [bs EXCEPT ![b].times = Append(@, what)]

Init ==
  /\ config \in Setups
  /\ output_attached = config.attached
  /\ bundles = <<>>
  /\ input_queue = <<>>
  /\ input_depth_queue = <<>>
  /\ output_queue = <<>>
  /\ feeder = "feeding"
  /\ depth_pushed = 0
  /\ pc = "drain"
  /\ input_ptr = Null
  /\ depth_guess = DefaultDepth
  /\ t_ns = InitialTns
  /\ frame_counter = 0
  /\ last_keypoint_id = 0
  /\ patches = EmptyMap
  /\ results = <<>>
  /\ transforms = Null
  /\ pyramid = Null
  /\ old_pyramid = Null
  /\ trace = <<>>
  /\ call = <<>>

\* Variant of addPoints: every keypoint camera 0 holds, not only those just
\* detected, is matched into camera 1.
addPointsMatchAll(kp, b, n, stereo) ==
  LET st == AddCorners([patches |-> patches, kpts0 |-> kp[0],
                        new_kpts0 |-> EmptyMap,
                        last_keypoint_id |-> last_keypoint_id,
                        assigned |-> <<>>],
                       b, 1, n, config.optical_flow_levels)
      kp0 == [kp EXCEPT ![0] = st.kpts0]
  IN  [patches |-> st.patches,
       last_keypoint_id |-> st.last_keypoint_id,
       assigned |-> st.assigned,
       keypoints |->
         IF config.num_cams > 1
         THEN [kp0 EXCEPT ![1] =
                 EmplaceAll(@, trackPoints(st.kpts0, stereo, b, 1))]
         ELSE kp0]

\* What addPoints leaves, given keypoints kp (per camera) of the result being
\* built: n corners are detected in camera 0 of bundle b; with a second
\* camera the new keypoints are tracked into camera 1 (stereo: those that
\* succeed) and emplaced.
addPoints(kp, b, n, stereo) ==
  LET st == AddCorners([patches |-> patches, kpts0 |-> kp[0],
                        new_kpts0 |-> EmptyMap,
                        last_keypoint_id |-> last_keypoint_id,
                        assigned |-> <<>>],
                       b, 1, n, config.optical_flow_levels)
      kp0 == [kp EXCEPT ![0] = st.kpts0]
  IN  [patches |-> st.patches,
       last_keypoint_id |-> st.last_keypoint_id,
       assigned |-> st.assigned,
       keypoints |->
         IF config.num_cams > 1
         THEN [kp0 EXCEPT ![1] =
                 EmplaceAll(@, trackPoints(st.new_kpts0, stereo, b, 1))]
         ELSE kp0]

\* processFrame(input_ptr->t_ns, input_ptr) past the missing-image test.
\* n, tracked, stereo and bad are what the images decide: the corners
\* detected, per camera the ids tracked from the previous frame, the new ids
\* matched into camera 1, the ids the epipolar test rejects.
processFrame(b, n, tracked, stereo, bad) ==
  LET first == IsBootstrap(t_ns)
      \* keypoints of the new result before addPoints
      kp_start == [c \in Cams |->
                     IF first THEN EmptyMap
                     ELSE trackPoints(CurrentKeypoints(results, transforms, c),
                                      tracked[c], b, c)]
      \* trackPoints in the else branch runs while transforms is still the
      \* previous result
      bs_tracked == IF first THEN bundles
                    ELSE StoreGuess(bundles, results, transforms, depth_guess)
      added == addPoints(kp_start, b, n, stereo)
      new_result == [t_ns |-> bundles[b].t_ns,
                     keypoints |-> filterPoints(added.keypoints,
                                                config.num_cams, bad),
                     input_images |-> b]
      new_results == Append(results, new_result)
      new_transforms == Len(new_results)
      \* trackPoints inside addPoints runs with transforms the new result
      bs_added == IF config.num_cams > 1
                  THEN StoreGuess(bs_tracked, new_results, new_transforms,
                                  depth_guess)
                  ELSE bs_tracked
      due == EmitDue(output_attached, frame_counter,
                     config.optical_flow_skip_frames)
  IN  /\ t_ns' = bundles[b].t_ns
      /\ old_pyramid' = IF first THEN old_pyramid ELSE pyramid
      /\ pyramid' = b
      /\ results' = new_results
      /\ transforms' = new_transforms
      /\ patches' = added.patches
      /\ last_keypoint_id' = added.last_keypoint_id
      /\ bundles' = IF due THEN AddTime(bs_added, b, "opticalflow_produced")
                    ELSE bs_added
      /\ output_queue' = IF due THEN PushResult(output_queue, new_transforms)
                         ELSE output_queue
      /\ frame_counter' = frame_counter + 1
      /\ trace' = Append(trace, [bundle |-> b, complete |-> TRUE,
                                 depth |-> depth_guess, first |-> first,
                                 counter |-> frame_counter, pushed |-> due,
                                 assigned |-> added.assigned])

\* --------------------------------------------------------- processingLoop
\* while (input_depth_queue.try_pop(depth_guess)) continue;  one successful
\* try_pop
DrainDepth ==
  /\ pc = "drain"
  /\ input_depth_queue # <<>>
  /\ depth_guess' = Head(input_depth_queue)
  /\ input_depth_queue' = Tail(input_depth_queue)
  /\ UNCHANGED <<config, call, output_attached, feederVars, output_queue,
                 depth_pushed, pc, input_ptr, trackerVars, trace>>

\* the try_pop that finds the channel empty and ends the drain loop
DrainDone ==
  /\ pc = "drain"
  /\ input_depth_queue = <<>>
  /\ pc' = "pop"
  /\ UNCHANGED <<config, call, output_attached, feederVars, input_depth_queue,
                 output_queue, depth_pushed, input_ptr, depth_guess,
                 trackerVars, trace>>

\* Variant of QueuePop: the newest item leaves the queue.
QueuePopNewest(q) == [item |-> q[Len(q)], rest |-> SubSeq(q, 1, Len(q) - 1)]

\* tbb::concurrent_bounded_queue::pop: the oldest item leaves the queue
QueuePop(q) == [item |-> Head(q), rest |-> Tail(q)]

\* Variant of ControlAfter: the loop is left after any bundle.
ControlAfterAlwaysBreak(ptr) == "done"

\* Where the while (true) loop goes after handling input_ptr: break on the
\* null sentinel, back to the depth drain after processFrame returned.
ControlAfter(ptr) == IF ptr = Null THEN "done" ELSE "drain"

\* input_queue.pop(input_ptr): blocks while the queue is empty
PopInput ==
  /\ pc = "pop"
  /\ input_queue # <<>>
  /\ input_ptr' = QueuePop(input_queue).item
  /\ input_queue' = QueuePop(input_queue).rest
  /\ pc' = "got"
  /\ UNCHANGED <<config, call, output_attached, bundles, feeder, input_depth_queue,
                 output_queue, depth_pushed, depth_guess, trackerVars, trace>>

\* Variant of PushNull: the sentinel is forwarded twice.
PushNullTwice(q) == Append(Append(q, Null), Null)

\* output_queue->push(nullptr)
PushNull(q) == Append(q, Null)

\* if (!input_ptr.get()) { output_queue->push(nullptr); break; } with an
\* output queue attached
ForwardNull ==
  /\ pc = "got"
  /\ input_ptr = Null
  /\ output_attached
  /\ output_queue' = PushNull(output_queue)
  /\ pc' = ControlAfter(input_ptr)
  /\ trace' = Append(trace, [bundle |-> Null])
  /\ UNCHANGED <<config, call, output_attached, feederVars, input_depth_queue,
                 depth_pushed, input_ptr, depth_guess, trackerVars>>

\* The same statement with output_queue == nullptr: a call through a null
\* pointer, undefined behaviour.  The build either faults or goes on to the
\* break; nothing is pushed anywhere.
NullDeref ==
  /\ pc = "got"
  /\ input_ptr = Null
  /\ ~output_attached
  /\ pc' \in {"crashed", ControlAfter(input_ptr)}
  /\ trace' = Append(trace, [bundle |-> Null])
  /\ UNCHANGED <<config, call, output_attached, feederVars, input_depth_queue,
                 output_queue, depth_pushed, input_ptr, depth_guess,
                 trackerVars>>

\* input_ptr->addTime("frames_received"); processFrame(...) returning at the
\* missing-image test
SkipFrame ==
  /\ pc = "got"
  /\ input_ptr # Null
  /\ MissingImage(bundles[input_ptr])
  /\ bundles' = AddTime(bundles, input_ptr, "frames_received")
  /\ trace' = Append(trace, [bundle |-> input_ptr, complete |-> FALSE,
                             depth |-> depth_guess, first |-> FALSE,
                             counter |-> frame_counter, pushed |-> FALSE,
                             assigned |-> <<>>])
  /\ pc' = ControlAfter(input_ptr)
  /\ UNCHANGED <<config, call, output_attached, input_queue, feeder,
                 input_depth_queue, output_queue, depth_pushed, input_ptr,
                 depth_guess, trackerVars>>

\* Ids the previous result holds in camera c: the keypoints trackPoints is
\* given in the else branch.
LiveIds(c) ==
  IF IsBootstrap(t_ns) \/ transforms = Null THEN {}
  ELSE DOMAIN CurrentKeypoints(results, transforms, c)

\* Ids that reach filterPoints' test: present in camera 1 and in camera 0.
Candidates(tracked, n, stereo) ==
  IF config.num_cams < 2 THEN {}
  ELSE (tracked[1] \cup stereo)
         \cap (tracked[0] \cup (last_keypoint_id .. last_keypoint_id + n - 1))

\* input_ptr->addTime("frames_received"); processFrame(...) on a complete
\* bundle
ProcessFrame ==
  /\ pc = "got"
  /\ input_ptr # Null
  /\ ~MissingImage(bundles[input_ptr])
  /\ \E n \in 0 .. (MaxKeypoints - last_keypoint_id) :
     \E tracked \in [Cams -> SUBSET (LiveIds(0) \cup LiveIds(config.num_cams - 1))] :
     \E stereo \in SUBSET (IF config.num_cams < 2 THEN {}
                           ELSE last_keypoint_id .. last_keypoint_id + n - 1) :
       /\ \A c \in Cams : tracked[c] \subseteq LiveIds(c)
       /\ \E bad \in SUBSET Candidates(tracked, n, stereo) :
            processFrame(input_ptr, n, tracked, stereo, bad)
  /\ pc' = ControlAfter(input_ptr)
  /\ UNCHANGED <<config, call, output_attached, input_queue, feeder,
                 input_depth_queue, depth_pushed, input_ptr, depth_guess>>

\* One step of the worker thread, the depth drain apart.
Worker ==
  \/ DrainDone
  \/ PopInput
  \/ ForwardNull
  \/ NullDeref
  \/ SkipFrame
  \/ ProcessFrame

\* A session in which nothing is pushed on the depth channel.
Next ==
  \/ FeedImage
  \/ FeedNull
  \/ Worker

Spec == Init /\ [][Next]_vars

\* The worker is a thread of its own: whenever it can take a step it does.
\* Progress is stated for the single-camera setups (the loop's control flow
\* does not depend on the number of cameras).
InitMono == Init /\ config.num_cams = 1

LiveSpec == InitMono /\ [][Next]_vars /\ WF_vars(Worker)

\* A session with a depth producer.
NextDepth ==
  \/ FeedImageDepth
  \/ FeedNull
  \/ PushDepth
  \/ DrainDepth
  \/ Worker

SpecDepth == Init /\ [][NextDepth]_vars

\* ------------------------------------------------ procedures on their own
\* The session's variables, which a call examined on its own leaves alone.
sessionVars == <<config, output_attached, bundles, input_queue,
                 input_depth_queue, output_queue, feeder, depth_pushed, pc,
                 input_ptr, depth_guess, trackerVars, trace>>

\* The tracker as constructed with setup cfg, nothing fed yet.
Constructed(cfg) ==
  /\ config = cfg
  /\ output_attached = cfg.attached
  /\ bundles = <<>>
  /\ input_queue = <<>>
  /\ input_depth_queue = <<>>
  /\ output_queue = <<>>
  /\ feeder = "feeding"
  /\ depth_pushed = 0
  /\ pc = "drain"
  /\ input_ptr = Null
  /\ depth_guess = DefaultDepth
  /\ t_ns = InitialTns
  /\ frame_counter = 0
  /\ last_keypoint_id = 0
  /\ patches = EmptyMap
  /\ results = <<>>
  /\ transforms = Null
  /\ pyramid = Null
  /\ old_pyramid = Null
  /\ trace = <<>>

StereoSetup == CHOOSE cfg \in Setups : cfg.num_cams = 2

\* What the images can decide for one keypoint of trackPoints: the source
\* translation is the pixel (0, 0); the offset leaves the prior on it or one
\* pixel off on either side of either axis; the backward track ends at
\* squared distance 1 or 2 of the source.
Measurements ==
  [t1 : {<<0, 0>>},
   off : {<<0, 0>>, <<1, 0>>, <<-1, 0>>, <<0, 1>>, <<0, -1>>},
   forward : BOOLEAN,
   backward : BOOLEAN,
   t1_recovered : {<<1, 0>>, <<1, 1>>}]

\* The keypoints detected in bundle 1 that trackPoints is given.
SourceKeypoints ==
  [id \in 0 .. (MaxKeypoints - 1) |-> DetectedKeypoint(1, id + 1)]

\* A call trackPoints(pyr_1, pyr_2, keypoint_map_1, keypoint_map_2, cam1, cam2)
\* about to be made: from camera 0 of bundle 1 into camera 0 of bundle 2
\* (temporal) or into camera 1 of bundle 1 (cross-camera).
InitTrack ==
  /\ Constructed(StereoSetup)
  /\ \E found \in [DOMAIN SourceKeypoints -> Measurements], cam2 \in {0, 1} :
       call = [proc |-> "trackPoints", keypoint_map_1 |-> SourceKeypoints,
               found |-> found, cam2 |-> cam2,
               keypoint_map_2 |-> EmptyMap, returned |-> FALSE]

\* The call runs to its return.
TrackCall ==
  /\ call.proc = "trackPoints"
  /\ ~call.returned
  /\ call' = [call EXCEPT
                !.keypoint_map_2 =
                  trackPoints(call.keypoint_map_1,
                              Written(call.found, MaxRecoveredDist2),
                              IF call.cam2 = 0 THEN 2 ELSE 1, call.cam2),
                !.returned = TRUE]
  /\ UNCHANGED sessionVars

SpecTrack == InitTrack /\ [][TrackCall]_vars

\* What one keypoint of a trackPoints call is given, and what the images
\* decide for it: the calls the program makes are temporal (cam1 = cam2) or
\* from camera 0 into camera 1; viewOffset returns one pixel to the right or
\* one pixel up whatever the cameras.
Guesses ==
  [cam1 : {0, 1}, cam2 : {0, 1}, guess_type : MatchingGuessTypes,
   t1 : {<<0, 0>>, <<2, 1>>}, view_offset : {<<1, 0>>, <<0, -1>>},
   moved : {<<0, 0>>, <<1, 0>>, <<0, 1>>}]

\* The loop body of compute_func about to run for one keypoint.
InitGuess ==
  /\ Constructed(StereoSetup)
  /\ \E g \in Guesses :
       /\ g.cam1 = g.cam2 \/ (g.cam1 = 0 /\ g.cam2 = 1)
       /\ call = [proc |-> "compute_func", given |-> g, stages |-> <<>>,
                  returned |-> FALSE]

\* The body runs up to the backward trackPoint.
GuessCall ==
  /\ call.proc = "compute_func"
  /\ ~call.returned
  /\ call' = [call EXCEPT !.stages = GuessStages(call.given),
                          !.returned = TRUE]
  /\ UNCHANGED sessionVars

SpecGuess == InitGuess /\ [][GuessCall]_vars

\* The increments a pass can compute: none, a pixel to the right, a quarter
\* turn, one with a component that is not a number, one of norm 1e6, and one
\* that takes the translation out of the image.
Increments ==
  {[finite |-> TRUE, t |-> <<0, 0>>, r |-> 0],
   [finite |-> TRUE, t |-> <<1, 0>>, r |-> 0],
   [finite |-> TRUE, t |-> <<0, 0>>, r |-> 1],
   [finite |-> FALSE, t |-> <<0, 0>>, r |-> 0],
   [finite |-> TRUE, t |-> <<0, MaxIncrement>>, r |-> 0],
   [finite |-> TRUE, t |-> <<0, -64>>, r |-> 0]}

\* What the image decides in one pass of trackPointAtLevel: the patch cannot
\* be sampled, or it can and the increment is one of Increments.
IterationOutcomes ==
  {[sampled |-> FALSE, inc |-> [finite |-> TRUE, t |-> <<0, 0>>, r |-> 0]]}
    \cup {[sampled |-> TRUE, inc |-> inc] : inc \in Increments}

\* config.optical_flow_max_iterations, at most, in the calls of
\* trackPointAtLevel examined.
MaxIterations == 3

\* The image given to trackPointAtLevel.
LevelImage == [w |-> 8, h |-> 8]

\* The warps given to trackPointAtLevel: in the middle of the image and
\* upright, or next to the margin and turned by a quarter.
LevelWarps ==
  {[translation |-> <<4, 4>>, linear |-> 0],
   [translation |-> <<5, 3>>, linear |-> 1]}

\* A call trackPointAtLevel(img_2, dp, transform) about to be made: the
\* images' outcomes are given for MaxIterations passes, whatever the number
\* of passes the configuration allows.
InitLevel ==
  /\ Constructed(StereoSetup)
  /\ \E max_iterations \in 0 .. MaxIterations, transform \in LevelWarps :
     \E outcome \in [1 .. MaxIterations -> IterationOutcomes] :
       call = [proc |-> "trackPointAtLevel",
               optical_flow_max_iterations |-> max_iterations,
               img_2 |-> LevelImage, transform |-> transform,
               outcome |-> outcome, left |-> <<>>, returned |-> FALSE]

\* The call runs to its return.
LevelCall ==
  /\ call.proc = "trackPointAtLevel"
  /\ ~call.returned
  /\ call' = [call EXCEPT
                !.left = trackPointAtLevel(call.img_2, call.transform,
                                           call.outcome,
                                           call.optical_flow_max_iterations),
                !.returned = TRUE]
  /\ UNCHANGED sessionVars

SpecLevel == InitLevel /\ [][LevelCall]_vars

\* config.optical_flow_levels, at most, in the calls of trackPoint examined.
MaxPyramidLevels == 2

\* The level-0 image of the pyramid given to trackPoint.
PyramidImage == [w |-> 32, h |-> 32]

\* The warps given to trackPoint: in the middle of the image and upright, or
\* off the middle and turned by a quarter.
PointWarps ==
  {[translation |-> <<16, 16>>, linear |-> 0],
   [translation |-> <<12, 20>>, linear |-> 1]}

\* A call trackPoint(pyr, patch_vec, transform) about to be made, with
\* optical_flow_max_iterations = 1.
InitPoint ==
  /\ Constructed(StereoSetup)
  /\ \E levels \in 0 .. MaxPyramidLevels, transform \in PointWarps :
     \E valid \in [0 .. levels -> BOOLEAN] :
     \E outcome \in [0 .. levels -> [1 .. 1 -> IterationOutcomes]] :
       call = [proc |-> "trackPoint", optical_flow_levels |-> levels,
               optical_flow_max_iterations |-> 1, transform |-> transform,
               valid |-> valid, outcome |-> outcome,
               left |-> <<>>, returned |-> FALSE]

\* The call runs to its return.
PointCall ==
  /\ call.proc = "trackPoint"
  /\ ~call.returned
  /\ call' = [call EXCEPT
                !.left = trackPoint(PyramidImage, call.valid, call.transform,
                                    call.outcome, call.optical_flow_levels,
                                    call.optical_flow_max_iterations),
                !.returned = TRUE]
  /\ UNCHANGED sessionVars

SpecPoint == InitPoint /\ [][PointCall]_vars

\* for (const auto& kv : keypoint_map_1) ids.push_back(kv.first): the keys
\* of the map, each once, in the map's order.
IdVector(keypoint_map_1) ==
  CHOOSE ids \in [1 .. Cardinality(DOMAIN keypoint_map_1) -> DOMAIN keypoint_map_1] :
    \A i, j \in DOMAIN ids : i < j => ids[i] < ids[j]

\* What the images decide for a keypoint in the calls whose loop is run by
\* several tasks: the prior is in bounds and the forward track succeeds.
TaskMeasurements ==
  {m \in Measurements : m.off = <<0, 0>> /\ m.forward}

\* The patch store the loop reads: one stack per source keypoint.
SourcePatches ==
  [id \in DOMAIN SourceKeypoints |->
     NewPatches(1, id + 1, 0, StereoSetup.optical_flow_levels)]

\* trackPoints about to enter tbb::parallel_for(range, compute_func) with
\* range = blocked_range(0, num_points): tasks holds the ranges handed to
\* compute_func, each with the index r it has reached; result is the
\* concurrent map, and (history) writers tells for each key the indices that
\* wrote it, done the indices processed so far, in order.
InitParallel ==
  /\ Constructed(StereoSetup)
  /\ \E found \in [DOMAIN SourceKeypoints -> TaskMeasurements], cam2 \in {0, 1} :
       call = [proc |-> "parallel_for", keypoint_map_1 |-> SourceKeypoints,
               ids |-> IdVector(SourceKeypoints), found |-> found,
               cam2 |-> cam2, patches |-> SourcePatches,
               tasks |-> {[begin |-> 1, end |-> Len(IdVector(SourceKeypoints)) + 1,
                           r |-> 1]},
               result |-> EmptyMap,
               writers |-> [id \in DOMAIN SourceKeypoints |-> {}],
               done |-> <<>>,
               keypoint_map_2 |-> EmptyMap, returned |-> FALSE]

\* The range of a task that has not started is split in two, at any index.
SplitRange ==
  /\ call.proc = "parallel_for"
  /\ ~call.returned
  /\ \E task \in call.tasks : \E middle \in (task.begin + 1) .. (task.end - 1) :
       /\ task.r = task.begin
       /\ call' = [call EXCEPT
                     !.tasks = (@ \ {task})
                                 \cup {[begin |-> task.begin, end |-> middle,
                                        r |-> task.begin],
                                       [begin |-> middle, end |-> task.end,
                                        r |-> middle]}]
  /\ UNCHANGED sessionVars

\* Variant of ResultKey: every iteration writes the key of the first index.
ResultKeyOfFirst(ids, r) == ids[1]

\* const KeypointId id = ids[r]; the key of result[id]
ResultKey(ids, r) == ids[r]

\* One pass of the loop 'for (r = range.begin(); r != range.end(); ++r)' of
\* some task: patches.at(id) is read, and result[id] is written when the
\* keypoint passes.
RunIteration ==
  /\ call.proc = "parallel_for"
  /\ ~call.returned
  /\ \E task \in call.tasks :
       /\ task.r # task.end
       /\ LET source == call.ids[task.r]
              id == ResultKey(call.ids, task.r)
              patch_vec == call.patches[id]
              passes == compute_func(call.found[source], MaxRecoveredDist2)
          IN  call' = [call EXCEPT
                         !.tasks = (@ \ {task})
                                     \cup {[task EXCEPT !.r = task.r + 1]},
                         !.done = Append(@, task.r),
                         !.result =
                           IF passes
                           THEN Put(@, id,
                                    TrackedKeypoint(call.keypoint_map_1[source],
                                                    IF call.cam2 = 0 THEN 2 ELSE 1,
                                                    call.cam2))
                           ELSE @,
                         !.writers =
                           IF passes THEN [@ EXCEPT ![id] = @ \cup {task.r}]
                           ELSE @]
  /\ UNCHANGED sessionVars

\* parallel_for returns when every task has run its range;
\* keypoint_map_2.clear(); keypoint_map_2.insert(result.begin(), result.end())
JoinTasks ==
  /\ call.proc = "parallel_for"
  /\ ~call.returned
  /\ \A task \in call.tasks : task.r = task.end
  /\ call' = [call EXCEPT !.keypoint_map_2 = call.result, !.returned = TRUE]
  /\ UNCHANGED sessionVars

NextParallel ==
  \/ SplitRange
  \/ RunIteration
  \/ JoinTasks

SpecParallel == InitParallel /\ [][NextParallel]_vars

\* Ids given to filterPoints: two a session's first frames give, the first
\* id an int cannot hold, and the first id that an int holds as 0.
FilterIds == {0, 1, IntValues \div 2, IntValues}

\* What unprojection and the epipolar form can give for one candidate.
Geometries ==
  [p3d0_success : BOOLEAN, p3d1_success : BOOLEAN,
   epipolar_error : {EpipolarError, EpipolarError + 1}]

\* transforms->keypoints when filterPoints is entered, for a rig of num_cams
\* cameras: camera 0 holds detections of bundle 1, camera 1 their matches;
\* a third camera's map is empty or holds every id.
FilterInputs(num_cams) ==
  {kp \in [0 .. (num_cams - 1) -> UNION {[ids -> {Null}] : ids \in SUBSET FilterIds}] :
     num_cams > 2 => DOMAIN kp[2] \in {{}, FilterIds}}

KeypointsOf(ids_of) ==
  [c \in DOMAIN ids_of |->
     [id \in DOMAIN ids_of[c] |->
        IF c = 0 THEN DetectedKeypoint(1, id + 1)
        ELSE TrackedKeypoint(DetectedKeypoint(1, id + 1), 1, c)]]

\* A call filterPoints() about to be made.
InitFilter ==
  /\ Constructed(StereoSetup)
  /\ \E num_cams \in 1 .. 3 :
     \E ids_of \in FilterInputs(num_cams) :
     \E geometry \in [IF num_cams < 2 THEN {}
                      ELSE (DOMAIN ids_of[0]) \cap (DOMAIN ids_of[1])
                      -> Geometries] :
       call = [proc |-> "filterPoints", num_cams |-> num_cams,
               keypoints |-> KeypointsOf(ids_of), geometry |-> geometry,
               left |-> KeypointsOf(ids_of), returned |-> FALSE]

\* The call runs to its return.
FilterCall ==
  /\ call.proc = "filterPoints"
  /\ ~call.returned
  /\ call' = [call EXCEPT
                !.left = filterPoints(call.keypoints, call.num_cams,
                                      Offenders(call.geometry, EpipolarError)),
                !.returned = TRUE]
  /\ UNCHANGED sessionVars

SpecFilter == InitFilter /\ [][FilterCall]_vars

\* A rig of three cameras, otherwise set up as the rig of two.
TripleSetup == [StereoSetup EXCEPT !.num_cams = 3]

\* What the images of the first frame decide on a rig of num_cams cameras:
\* the number n of corners detected, for each camera j >= 1 the new ids for
\* which bidirectional tracking from camera 0 into camera j succeeds, and
\* for each id matched into camera 1 what unprojection and the epipolar form
\* give.
FirstFrameImages(num_cams) ==
  UNION {[n : {n}, matching : {matching},
          geometry : [matching[1] -> Geometries]] :
           n \in 0 .. MaxKeypoints,
           matching \in [1 .. (num_cams - 1) -> SUBSET (0 .. MaxKeypoints - 1)]}

\* The tracker as constructed on a rig of two or three cameras; the images
\* of the first bundle are fixed beforehand.
InitFirst ==
  \E cfg \in {StereoSetup, TripleSetup} :
    /\ Constructed(cfg)
    /\ \E im \in FirstFrameImages(cfg.num_cams) :
         /\ \A j \in DOMAIN im.matching : im.matching[j] \subseteq 0 .. (im.n - 1)
         /\ call = [proc |-> "processFrame"] @@ im

\* feed_images with a dataset of one bundle.
FeedFirst == PushBundle(1)

\* processFrame on the first complete bundle: the branch t_ns < 0.
FirstFrame ==
  /\ call.proc = "processFrame"
  /\ pc = "got"
  /\ input_ptr # Null
  /\ ~MissingImage(bundles[input_ptr])
  /\ IsBootstrap(t_ns)
  /\ processFrame(input_ptr, call.n, [c \in Cams |-> {}], call.matching[1],
                  Offenders(call.geometry, EpipolarError))
  /\ pc' = ControlAfter(input_ptr)
  /\ UNCHANGED <<config, call, output_attached, input_queue, feeder,
                 input_depth_queue, depth_pushed, input_ptr, depth_guess>>

NextFirst ==
  \/ FeedFirst
  \/ DrainDone
  \/ PopInput
  \/ SkipFrame
  \/ FirstFrame

SpecFirst == InitFirst /\ [][NextFirst]_vars

\* ----------------------------------------------------- the same run twice
\* What a run was fed: the image payloads of the bundles pushed, in order,
\* and the values pushed on the depth channel (the k-th value is k).
Inputs ==
  [images |-> [i \in DOMAIN bundles |-> bundles[i].img],
   depth_values |-> [k \in 1 .. depth_pushed |-> k]]

\* What the consumer of the output queue gets: for every item pushed, in
\* order, <<>> for nullptr, or the result's t_ns and keypoints with the
\* depth_guess of the bundle it retains.
Outputs ==
  [i \in DOMAIN output_queue |->
     IF output_queue[i] = Null THEN <<>>
     ELSE <<[t_ns |-> results[output_queue[i]].t_ns,
             keypoints |-> results[output_queue[i]].keypoints,
             depth_guess |->
               bundles[results[output_queue[i]].input_images].depth_guess]>>]

\* The feeder pushed the null and the worker left its loop on it.
RunEnded == feeder = "done" /\ pc = "done"

\* A rig of two cameras and a dataset of one bundle, run twice: what the
\* images of a complete first frame decide (at most one corner) is the same
\* in both runs.
InitTwice ==
  /\ Constructed(StereoSetup)
  /\ \E im \in FirstFrameImages(2) :
       /\ im.n <= 1
       /\ im.matching[1] \subseteq 0 .. (im.n - 1)
       /\ call = [proc |-> "processFrame", run |-> 1, before |-> <<>>] @@ im

\* The first run has ended: what it was fed and what it pushed is kept, and
\* the pipeline is constructed anew with the same configuration.
RunAgain ==
  /\ call.run = 1
  /\ RunEnded
  /\ call' = [call EXCEPT !.run = 2,
                          !.before = [inputs |-> Inputs, outputs |-> Outputs]]
  /\ bundles' = <<>>
  /\ input_queue' = <<>>
  /\ input_depth_queue' = <<>>
  /\ output_queue' = <<>>
  /\ feeder' = "feeding"
  /\ depth_pushed' = 0
  /\ pc' = "drain"
  /\ input_ptr' = Null
  /\ depth_guess' = DefaultDepth
  /\ t_ns' = InitialTns
  /\ frame_counter' = 0
  /\ last_keypoint_id' = 0
  /\ patches' = EmptyMap
  /\ results' = <<>>
  /\ transforms' = Null
  /\ pyramid' = Null
  /\ old_pyramid' = Null
  /\ trace' = <<>>
  /\ UNCHANGED <<config, output_attached>>

NextTwice ==
  \/ FeedFirst
  \/ FeedNull
  \/ PushDepth
  \/ DrainDepth
  \/ DrainDone
  \/ PopInput
  \/ ForwardNull
  \/ SkipFrame
  \/ FirstFrame
  \/ RunAgain

SpecTwice == InitTwice /\ [][NextTwice]_vars

\* ------------------------------------------------- the frame after the first
\* A geometry that passes the epipolar test.
GoodGeometry ==
  [p3d0_success |-> TRUE, p3d1_success |-> TRUE, epipolar_error |-> EpipolarError]

\* What the images of the second frame decide on a rig of two cameras: per
\* camera the ids for which tracking from the previous frame succeeds, the
\* number n of corners detected, the ids, old or new, for which tracking from
\* camera 0 into camera 1 of this frame succeeds, and the ids the epipolar
\* test rejects (at most one).
TrackFrameImages(n1) ==
  UNION {[tracked : [0 .. 1 -> SUBSET (0 .. n1 - 1)], n : {n},
          matching : SUBSET (0 .. n1 + n - 1),
          bad : {{}} \cup {{id} : id \in 0 .. n1 + n - 1}] :
           n \in 0 .. (MaxKeypoints - n1)}

\* The tracker as constructed on a rig of two cameras; the images of the
\* first two bundles are fixed beforehand, and every match of the first frame
\* passes its epipolar test.
InitSecond ==
  /\ Constructed(StereoSetup)
  /\ \E im \in FirstFrameImages(2) :
       /\ im.matching[1] \subseteq 0 .. (im.n - 1)
       /\ \A id \in DOMAIN im.geometry : im.geometry[id] = GoodGeometry
       /\ \E next \in TrackFrameImages(im.n) :
            call = [proc |-> "processFrame", next |-> next] @@ im

\* feed_images with a dataset of two bundles.
FeedSecond == PushBundle(2)

\* processFrame on the complete bundle after the first: the else branch.
SecondFrame ==
  /\ call.proc = "processFrame"
  /\ pc = "got"
  /\ input_ptr # Null
  /\ ~MissingImage(bundles[input_ptr])
  /\ ~IsBootstrap(t_ns)
  /\ processFrame(input_ptr, call.next.n, call.next.tracked,
                  call.next.matching, call.next.bad)
  /\ pc' = ControlAfter(input_ptr)
  /\ UNCHANGED <<config, call, output_attached, input_queue, feeder,
                 input_depth_queue, depth_pushed, input_ptr, depth_guess>>

NextSecond ==
  \/ FeedSecond
  \/ DrainDone
  \/ PopInput
  \/ SkipFrame
  \/ FirstFrame
  \/ SecondFrame

SpecSecond == InitSecond /\ [][NextSecond]_vars

\* ------------------------------------------------- feed_images step by step
\* Variant of StopEarly: the limit is passed by one before the loop stops.
StopEarlyPastLimit(finished, terminate, max_frames, i) ==
  finished \/ terminate \/ (max_frames > 0 /\ i > max_frames)

\* vio->finished || terminate || (max_frames > 0 && i >= max_frames)
StopEarly(finished, terminate, max_frames, i) ==
  finished \/ terminate \/ (max_frames > 0 /\ i >= max_frames)

\* feed_images about to start (step_by_step is off): the dataset holds size
\* image timestamps, max_frames is the command line's limit (0: none), i the
\* loop's index, at the place the thread has reached; finished and terminate
\* are the flags other threads set.  Nothing pops the input queue here, so it
\* holds every push in order.
InitFeed ==
  \E cfg \in Setups :
    /\ Constructed(cfg)
    /\ \E size \in 0 .. MaxFrames, max_frames \in 0 .. MaxFrames :
         call = [proc |-> "feed_images", size |-> size,
                 max_frames |-> max_frames, i |-> 0, at |-> "for",
                 finished |-> FALSE, terminate |-> FALSE]

\* The estimator sets vio->finished.
SetFinished ==
  /\ call.proc = "feed_images"
  /\ ~call.finished
  /\ call' = [call EXCEPT !.finished = TRUE]
  /\ UNCHANGED sessionVars

\* main sets terminate.
SetTerminate ==
  /\ call.proc = "feed_images"
  /\ ~call.terminate
  /\ call' = [call EXCEPT !.terminate = TRUE]
  /\ UNCHANGED sessionVars

\* The loop's condition i < size and the test that breaks the loop early.
FeedTest ==
  /\ call.proc = "feed_images"
  /\ call.at = "for"
  /\ call' = [call EXCEPT
                !.at = IF call.i < call.size
                          /\ ~StopEarly(call.finished, call.terminate,
                                        call.max_frames, call.i)
                       THEN "body" ELSE "end"]
  /\ UNCHANGED sessionVars

\* The loop's body: a bundle is made for timestamp number i and pushed
\* (blocking while the queue is full); i++.
FeedPush ==
  /\ call.proc = "feed_images"
  /\ call.at = "body"
  /\ Len(input_queue) < QueueCapacity
  /\ \E img \in ImagePayloads :
       /\ bundles' = Append(bundles, NewBundle(TimeStamp(call.i + 1), img,
                                               LatestDepthPushed))
       /\ input_queue' = Append(input_queue, Len(bundles) + 1)
  /\ call' = [call EXCEPT !.i = call.i + 1, !.at = "for"]
  /\ UNCHANGED <<config, output_attached, input_depth_queue, output_queue,
                 feeder, depth_pushed, pc, input_ptr, depth_guess, trackerVars,
                 trace>>

\* opt_flow_ptr->input_queue.push(nullptr) after the loop, and the return.
FeedSentinel ==
  /\ call.proc = "feed_images"
  /\ call.at = "end"
  /\ Len(input_queue) < QueueCapacity
  /\ input_queue' = Append(input_queue, Null)
  /\ feeder' = "done"
  /\ call' = [call EXCEPT !.at = "returned"]
  /\ UNCHANGED <<config, output_attached, bundles, input_depth_queue,
                 output_queue, depth_pushed, pc, input_ptr, depth_guess,
                 trackerVars, trace>>

NextFeed ==
  \/ SetFinished
  \/ SetTerminate
  \/ FeedTest
  \/ FeedPush
  \/ FeedSentinel

SpecFeed == InitFeed /\ [][NextFeed]_vars

\* ======================================================= properties
Range(q) == {q[i] : i \in DOMAIN q}

\* The results pushed on the output queue so far, in order (nulls left out).
PushedResults == SelectSeq(output_queue, LAMBDA x : x # Null)

NullsPushed == Cardinality({i \in DOMAIN output_queue : output_queue[i] = Null})

\* The trace entries of the complete frames (those processFrame went through).
CompleteFrames == SelectSeq(trace, LAMBDA e : e.bundle # Null /\ e.complete)

\* Some camera's image payload of bundle b is null.
HasNullImage(b) == \E c \in Cams : ~bundles[b].img[c]

\* Result pointer tr was pushed on the output queue.
WasPushed(tr) == tr \in Range(output_queue)

\* C1. End of stream, with an output queue attached: once the null sentinel
\* is on the input queue the worker eventually leaves its loop; when it has
\* left, exactly one null is on the output queue (never more than one at any
\* time); and after leaving it pushes nothing and pops nothing.
C1_EndOfStream ==
  /\ (output_attached /\ Null \in Range(input_queue)) ~> (pc = "done")
  /\ [](output_attached /\ pc = "done" => NullsPushed = 1)
  /\ [](NullsPushed <= 1)
  /\ [][pc = "done" =>
          /\ pc' = "done"
          /\ output_queue' = output_queue
          /\ input_ptr' = input_ptr
          /\ Len(input_queue') >= Len(input_queue)]_vars

\* The worker left its loop after forwarding the null that followed some
\* frame bundles.
C1_Witness ==
  /\ output_attached
  /\ pc = "done"
  /\ Len(bundles) >= 2
  /\ output_queue # <<>>
  /\ output_queue[Len(output_queue)] = Null

\* C2. Output order: the results pushed on the output queue are distinct
\* objects, each retains one bundle that was input and carries its t_ns, and
\* the retained bundles appear in strictly increasing input order.
C2_OutputOrder ==
  LET rs == PushedResults
  IN  /\ \A i \in DOMAIN rs :
           /\ rs[i] \in DOMAIN results
           /\ results[rs[i]].input_images \in DOMAIN bundles
           /\ results[rs[i]].t_ns = bundles[results[rs[i]].input_images].t_ns
      /\ \A i, j \in DOMAIN rs :
           i < j => /\ rs[i] # rs[j]
                    /\ results[rs[i]].input_images < results[rs[j]].input_images

\* Two results are on the output queue, with a bundle between them in input
\* order that produced none.
C2_Witness ==
  LET rs == PushedResults
  IN  /\ Len(rs) >= 2
      /\ results[rs[2]].input_images > results[rs[1]].input_images + 1

\* C3. Cancellation: when the null has been forwarded it is the last item of
\* the output queue, every bundle the feeder pushed has been handled before
\* it, in input order, and every complete frame that was due is on the output
\* queue before the null; and a popped bundle is always handled next.
C3_Cancellation ==
  /\ [](NullsPushed > 0 =>
          /\ output_queue[Len(output_queue)] = Null
          /\ Len(trace) = Len(bundles) + 1
          /\ \A k \in DOMAIN bundles : trace[k].bundle = k
          /\ \A k \in DOMAIN bundles :
               (~HasNullImage(k)
                  /\ trace[k].counter % config.optical_flow_skip_frames = 0)
               => \E tr \in Range(PushedResults) :
                    results[tr].input_images = k)
  /\ [][pc = "got" /\ input_ptr # Null /\ pc' # pc =>
          /\ Len(trace') = Len(trace) + 1
          /\ trace'[Len(trace')].bundle = input_ptr]_vars

\* The null was pushed while the worker held a popped bundle, and has been
\* forwarded after all three bundles.
C3_Witness ==
  /\ NullsPushed = 1
  /\ Len(bundles) = MaxFrames
  /\ Len(PushedResults) >= 2

\* The ids given to detections in the whole session, in order.
RECURSIVE AssignedFrom(_)
AssignedFrom(k) ==
  IF k > Len(trace) THEN <<>>
  ELSE (IF trace[k].bundle = Null THEN <<>> ELSE trace[k].assigned)
         \o AssignedFrom(k + 1)

AssignedIds == AssignedFrom(1)

\* C4. Keypoint ids: over the session every detection gets an id strictly
\* greater than all ids given before, and last_keypoint_id is above them all.
C4_IdsIncrease ==
  LET a == AssignedIds
  IN  /\ \A i, j \in DOMAIN a : i < j => a[i] < a[j]
      /\ \A i \in DOMAIN a : a[i] < last_keypoint_id

\* Ids were given in two different frames, the keypoint of the first being
\* gone from camera 0 when the second was detected.
C4_Witness ==
  /\ Len(AssignedIds) >= 2
  /\ \E i, j \in DOMAIN trace :
       /\ i < j
       /\ trace[i].bundle # Null /\ trace[j].bundle # Null
       /\ trace[i].assigned # <<>> /\ trace[j].assigned # <<>>
  /\ transforms # Null
  /\ 0 \notin DOMAIN results[transforms].keypoints[0]

\* C5. Patch immutability: no step removes or changes the patch stack of an
\* id that has one.
C5_PatchesImmutable ==
  [][\A id \in DOMAIN patches :
        id \in DOMAIN patches' /\ patches'[id] = patches[id]]_vars

\* A keypoint detected in one frame was tracked in a later frame, in which
\* another keypoint was detected.
C5_Witness ==
  /\ Len(results) >= 2
  /\ 0 \in DOMAIN patches /\ 1 \in DOMAIN patches
  /\ 0 \in DOMAIN results[transforms].keypoints[0]
  /\ results[transforms].keypoints[0][0].detected_by_opt_flow
  /\ patches[1][1].img = results[transforms].input_images

\* C6. Patch store coverage: every id in any camera's map of any result has a
\* patch stack of optical_flow_levels + 1 patches, one per level in order,
\* and the store holds the stacks of all ids given so far.
C6_PatchCoverage ==
  /\ \A r \in DOMAIN results : \A c \in Cams :
       \A id \in DOMAIN results[r].keypoints[c] :
         /\ id \in DOMAIN patches
         /\ Len(patches[id]) = config.optical_flow_levels + 1
         /\ \A l \in 0 .. config.optical_flow_levels :
              patches[id][l + 1].lvl = l
  /\ DOMAIN patches = Range(AssignedIds)

\* A two-level stack is in the store for a keypoint that camera 1 holds.
C6_Witness ==
  /\ config.optical_flow_levels = 1
  /\ transforms # Null
  /\ \E id \in DOMAIN results[transforms].keypoints[1] :
       Len(patches[id]) = 2

\* C7. Missing frame: the step that handles a popped bundle with a null image
\* pushes nothing and leaves t_ns, the current result, the results, the
\* pyramids, the patch store and last_keypoint_id as they were.
C7_MissingFrame ==
  [][pc = "got" /\ input_ptr # Null /\ HasNullImage(input_ptr) =>
       UNCHANGED <<output_queue, t_ns, transforms, results, pyramid,
                   old_pyramid, patches, last_keypoint_id>>]_vars

\* A bundle with camera 0 present and camera 1 null was skipped after a
\* frame that left keypoints.
C7_Witness ==
  /\ config.num_cams = 2
  /\ Len(trace) >= 2
  /\ trace[Len(trace)].bundle # Null
  /\ ~trace[Len(trace)].complete
  /\ bundles[trace[Len(trace)].bundle].img[0]
  /\ transforms # Null
  /\ DOMAIN results[transforms].keypoints[0] # {}

\* C8. Failures never stop the stream: a popped bundle is always handled and
\* the worker returns to the top of its loop; every bundle pushed is
\* eventually handled; every complete frame handled has its result; and with
\* an output queue attached the worker leaves the loop once the null is in.
C8_StreamGoesOn ==
  /\ (pc = "got" /\ input_ptr # Null) ~> (pc = "drain")
  /\ \A k \in 1 .. MaxFrames :
       (Len(bundles) >= k) ~> (\E i \in DOMAIN trace : trace[i].bundle = k)
  /\ [](\A i \in DOMAIN trace :
          (trace[i].bundle # Null /\ trace[i].complete)
          => \E r \in DOMAIN results :
               results[r].input_images = trace[i].bundle)
  /\ (output_attached /\ feeder = "done") ~> (pc = "done")

\* After a frame that left a keypoint, a frame in which every keypoint failed
\* tracking (its result is empty), then a bundle with a null image, and the
\* worker has left its loop on the null.
C8_Witness ==
  /\ pc = "done"
  /\ Len(trace) = 4
  /\ Len(results) = 2
  /\ DOMAIN results[1].keypoints[0] # {}
  /\ \A c \in Cams : DOMAIN results[2].keypoints[c] = {}
  /\ ~trace[3].complete

\* C9. Frame skipping: the j-th complete frame (j = 0, 1, ...) is handled
\* with frame_counter = j, and its result is on the output queue if and only
\* if an output queue is attached and j % optical_flow_skip_frames = 0.
C9_FrameSkipping ==
  LET cf == CompleteFrames
  IN  /\ Len(results) = Len(cf)
      /\ \A j \in DOMAIN cf :
           /\ cf[j].counter = j - 1
           /\ results[j].input_images = cf[j].bundle
           /\ WasPushed(j) <=>
                (output_attached
                   /\ (j - 1) % config.optical_flow_skip_frames = 0)

\* With optical_flow_skip_frames = 2, three complete frames: the first and
\* the third are on the output queue, the second is not.
C9_Witness ==
  /\ config.optical_flow_skip_frames = 2
  /\ output_attached
  /\ Len(CompleteFrames) = 3
  /\ PushedResults = <<1, 3>>

\* C10. Depth channel is latest-wins: the depth the worker holds while it
\* handles a complete frame is the most recent value pushed on the depth
\* channel before the frame's bundle was pushed on the input queue.
C10_DepthLatestWins ==
  \A i \in DOMAIN trace :
    (trace[i].bundle # Null /\ trace[i].complete)
    => trace[i].depth = bundles[trace[i].bundle].depth_at_push

\* The trace entry of bundle b (each bundle is popped once).
FrameOf(b) == trace[CHOOSE i \in DOMAIN trace : trace[i].bundle = b]

\* C11. Reported depth guess: for every result pushed on the output queue,
\* whatever the number of cameras and whether the frame was the first or a
\* later one, the depth_guess field of the bundle the result retains holds
\* the value the worker's depth_guess had when that frame was processed.
C11_ReportedDepth ==
  \A tr \in Range(PushedResults) :
    bundles[results[tr].input_images].depth_guess
      = <<FrameOf(results[tr].input_images).depth>>

\* C12. Forward-backward check: when trackPoints has returned, an id is in
\* its output map only if the prior was inside the level-0 target image, the
\* forward track succeeded, the backward track succeeded and the squared
\* distance between the source translation and the recovered one is strictly
\* below optical_flow_max_recovered_dist2; an id failing any of them is not
\* in the output map, and the output holds no other id.
C12_ForwardBackward ==
  (call # <<>> /\ call.proc = "trackPoints" /\ call.returned) =>
    /\ DOMAIN call.keypoint_map_2 \subseteq DOMAIN call.keypoint_map_1
    /\ \A id \in DOMAIN call.keypoint_map_1 :
         LET m == call.found[id]
             d == Minus(m.t1, m.t1_recovered)
             prior == Minus(m.t1, m.off)
         IN  id \in DOMAIN call.keypoint_map_2 <=>
               /\ prior[1] \in 0 .. (LevelZeroW - 1)
               /\ prior[2] \in 0 .. (LevelZeroH - 1)
               /\ m.forward
               /\ m.backward
               /\ d[1] * d[1] + d[2] * d[2] < MaxRecoveredDist2

\* A call has returned with one keypoint written and another one dropped
\* whose only failure is a recovered distance equal to the tolerance.
C12_Witness ==
  /\ call # <<>> /\ call.proc = "trackPoints" /\ call.returned
  /\ 0 \in DOMAIN call.keypoint_map_2
  /\ 1 \notin DOMAIN call.keypoint_map_2
  /\ call.found[1].off = <<0, 0>>
  /\ call.found[1].forward /\ call.found[1].backward
  /\ squaredNorm(Minus(call.found[1].t1, call.found[1].t1_recovered))
       = MaxRecoveredDist2

FilterReturned ==
  call # <<>> /\ call.proc = "filterPoints" /\ call.returned

\* C13. The epipolar filter touches camera 1 only: when filterPoints has
\* returned, the map of every camera other than 1 is as it was, every entry
\* left in camera 1 was there before with the same pose, descriptor and
\* flag, and on a rig of fewer than two cameras nothing has changed.
C13_FilterCameraOne ==
  FilterReturned =>
    /\ \A c \in DOMAIN call.keypoints :
         c # 1 => call.left[c] = call.keypoints[c]
    /\ call.num_cams >= 2 =>
         \A id \in DOMAIN call.left[1] :
           /\ id \in DOMAIN call.keypoints[1]
           /\ call.left[1][id] = call.keypoints[1][id]
    /\ call.num_cams < 2 => call.left = call.keypoints

\* On a rig of three cameras an offender has been removed from camera 1
\* while cameras 0 and 2 hold it.
C13_Witness ==
  /\ FilterReturned
  /\ call.num_cams = 3
  /\ 1 \in DOMAIN call.keypoints[1]
  /\ 1 \notin DOMAIN call.left[1]
  /\ 0 \in DOMAIN call.left[1]
  /\ 1 \in DOMAIN call.left[0]
  /\ 1 \in DOMAIN call.left[2]

\* C14. The epipolar filter removes exactly the offenders: when filterPoints
\* has returned on a rig of two cameras or more, an id that was in camera 0
\* and in camera 1 is gone from camera 1 if and only if its unprojection
\* failed in either camera or its residual exceeded
\* optical_flow_epipolar_error, and an id that was in camera 1 only is still
\* there; this for every value of the id type.
C14_ExactlyOffenders ==
  (FilterReturned /\ call.num_cams >= 2) =>
    \A id \in DOMAIN call.keypoints[1] :
      id \notin DOMAIN call.left[1] <=>
        /\ id \in DOMAIN call.keypoints[0]
        /\ \/ ~call.geometry[id].p3d0_success
           \/ ~call.geometry[id].p3d1_success
           \/ call.geometry[id].epipolar_error > EpipolarError

\* C15. Stereo seeding: in the result of the first frame of a rig of two
\* cameras every id of camera 1 is an id of camera 0, was unprojected in both
\* cameras and has an epipolar residual not above
\* optical_flow_epipolar_error.
C15_StereoSeeding ==
  (call # <<>> /\ call.proc = "processFrame" /\ results # <<>>
     /\ config.num_cams = 2) =>
    \A id \in DOMAIN results[1].keypoints[1] :
      /\ id \in DOMAIN results[1].keypoints[0]
      /\ id \in DOMAIN call.geometry
      /\ call.geometry[id].p3d0_success
      /\ call.geometry[id].p3d1_success
      /\ call.geometry[id].epipolar_error <= EpipolarError

\* The first frame detected two corners and matched both into camera 1; one
\* passed the epipolar test with a residual equal to the threshold, the
\* other had a residual above it and is left in camera 0 only.
C15_Witness ==
  /\ call # <<>> /\ call.proc = "processFrame" /\ results # <<>>
  /\ config.num_cams = 2
  /\ call.matching[1] = {0, 1}
  /\ DOMAIN results[1].keypoints[0] = {0, 1}
  /\ DOMAIN results[1].keypoints[1] = {0}
  /\ call.geometry[0].epipolar_error = EpipolarError
  /\ call.geometry[1].p3d0_success /\ call.geometry[1].p3d1_success

\* The ids given to detections while result r was built.
FreshIds(r) == Range(FrameOf(results[r].input_images).assigned)

\* Result r was built by the first-frame branch.
BuiltFirst(r) == FrameOf(results[r].input_images).first

\* C16. Presence: in every result, each keypoint of a camera j >= 1 was
\* written by trackPoints (so passed the forward-backward check), coming
\* from camera j's map of the previous result or from a detection of this
\* frame, and went through this frame's epipolar test against its camera-0
\* observation: it is a keypoint of camera 0 in the same result, the test's
\* candidates being the ids that cameras 0 and 1 both hold.
C16_Presence ==
  \A r \in DOMAIN results : \A j \in Cams : j >= 1 =>
    \A id \in DOMAIN results[r].keypoints[j] :
      /\ results[r].keypoints[j][id].detected_by_opt_flow
      /\ \/ id \in FreshIds(r)
         \/ /\ ~BuiltFirst(r)
            /\ id \in DOMAIN results[r - 1].keypoints[j]
      /\ id \in DOMAIN results[r].keypoints[0]

\* The flag of every record tells whether trackPoints wrote it (addPoints'
\* detection loop writes the ids it gives, in camera 0), and every record
\* that was in the same camera of the previous result carries true.
FlagTellsTracking ==
  LET fresh == [r \in DOMAIN results |-> FreshIds(r)]
  IN  \A r \in DOMAIN results : \A c \in Cams :
        \A id \in DOMAIN results[r].keypoints[c] :
          /\ results[r].keypoints[c][id].detected_by_opt_flow
               <=> ~(c = 0 /\ id \in fresh[r])
          /\ (r > 1 /\ id \in DOMAIN results[r - 1].keypoints[c])
               => results[r].keypoints[c][id].detected_by_opt_flow

\* C17, in the specification's wording.  Provenance flag:
\* detected_by_opt_flow is true if and only if the record was produced by
\* tracking, false if and only if by detection; all records of a result
\* built by the first-frame branch, in every camera, carry false, and every
\* record that survives into the next frame carries true.
C17_FlagAllFalseAtFirst ==
  /\ FlagTellsTracking
  /\ \A r \in DOMAIN results : BuiltFirst(r) =>
       \A c \in Cams : \A id \in DOMAIN results[r].keypoints[c] :
         ~results[r].keypoints[c][id].detected_by_opt_flow

\* C17, with the first-frame part told per camera.  Provenance flag:
\* detected_by_opt_flow is true if and only if the record was written by
\* trackPoints (temporal tracking or matching from camera 0 into camera 1),
\* false if and only if it was written by the detection loop of addPoints;
\* in a result built by the first-frame branch the records of camera 0 carry
\* false and those of camera 1 carry true; and every record that survives
\* into the next frame carries true.
C17_ProvenanceFlag ==
  /\ FlagTellsTracking
  /\ \A r \in DOMAIN results : BuiltFirst(r) =>
       \A c \in Cams : \A id \in DOMAIN results[r].keypoints[c] :
         results[r].keypoints[c][id].detected_by_opt_flow <=> c >= 1

\* On a rig of two cameras the first frame left a keypoint in both cameras,
\* false in camera 0 and true in camera 1, and the second frame tracked it
\* in camera 0 and detected another one.
C17_Witness ==
  /\ config.num_cams = 2
  /\ Len(results) = 2
  /\ BuiltFirst(1) /\ ~BuiltFirst(2)
  /\ 0 \in DOMAIN results[1].keypoints[0]
  /\ 0 \in DOMAIN results[1].keypoints[1]
  /\ ~results[1].keypoints[0][0].detected_by_opt_flow
  /\ results[1].keypoints[1][0].detected_by_opt_flow
  /\ 0 \in DOMAIN results[2].keypoints[0]
  /\ results[2].keypoints[0][0].detected_by_opt_flow
  /\ 1 \in DOMAIN results[2].keypoints[0]
  /\ ~results[2].keypoints[0][1].detected_by_opt_flow

\* C18. The stereo matcher covers every secondary camera: on a rig of N >= 2
\* cameras, a keypoint detected in camera 0 in the first frame and matched
\* successfully into camera j, 1 <= j < N, is in camera j's map of the
\* frame's result (in camera 1, unless the epipolar filter removed it).
C18_EverySecondaryCamera ==
  (call # <<>> /\ call.proc = "processFrame" /\ results # <<>>) =>
    \A j \in 1 .. (config.num_cams - 1) : \A id \in call.matching[j] :
      (j = 1 => id \notin Offenders(call.geometry, EpipolarError))
        => id \in DOMAIN results[1].keypoints[j]

\* C19. Failed keypoints disappear for good: for every camera k, every id in
\* camera k's map of a result is in camera k's map of the previous result or
\* was given to a detection of this frame; and an id that, once created, is
\* absent from camera k in some result is absent from camera k in every
\* later result (an id that a later result holds was in every result since
\* the one that created it).
C19_NoResurrection ==
  LET fresh == [r \in DOMAIN results |-> FreshIds(r)]
  IN  \A later \in DOMAIN results : \A k \in Cams :
        \A id \in DOMAIN results[later].keypoints[k] :
          /\ \/ id \in fresh[later]
             \/ later > 1 /\ id \in DOMAIN results[later - 1].keypoints[k]
          /\ \A r \in 1 .. (later - 1) :
               (\E q \in 1 .. r : id \in fresh[q])
                 => id \in DOMAIN results[r].keypoints[k]

\* Three frames on a rig of two cameras: a keypoint detected and matched in
\* the first is lost in camera 0 in the second while camera 1 keeps it, and
\* the third result holds it in camera 1 only, beside a fresh detection.
C19_Witness ==
  /\ config.num_cams = 2
  /\ Len(results) = 3
  /\ 0 \in DOMAIN results[1].keypoints[0]
  /\ 0 \in DOMAIN results[1].keypoints[1]
  /\ 0 \notin DOMAIN results[2].keypoints[0]
  /\ 0 \in DOMAIN results[2].keypoints[1]
  /\ 0 \notin DOMAIN results[3].keypoints[0]
  /\ 0 \in DOMAIN results[3].keypoints[1]
  /\ 1 \in DOMAIN results[3].keypoints[0]
  /\ 1 \in FreshIds(3)

\* C20. Determinism: of two runs with the same configuration that were fed
\* the same frame bundles and the same values on the depth channel, the
\* second has pushed, when it has ended, the same sequence of results as the
\* first (same timestamps, keypoints per camera with their poses and flags,
\* and depth_guess), however the feeder, the depth producer and the worker
\* were interleaved in either run.
C20_Determinism ==
  (call # <<>> /\ call.proc = "processFrame" /\ call.run = 2
     /\ RunEnded /\ Inputs = call.before.inputs)
    => Outputs = call.before.outputs

\* C21. Bootstrap happens once: whatever the timestamps of the bundles, the
\* first-frame branch is taken for exactly the first complete frame of a
\* session, and every later complete frame takes the track branch, whose
\* source pyramids are those of the complete frame before it.
C21_BootstrapOnce ==
  LET frames == CompleteFrames
  IN  /\ \A i \in DOMAIN frames : frames[i].first <=> i = 1
      /\ Len(frames) >= 2 => old_pyramid = frames[Len(frames) - 1].bundle

\* C22. Order inside a track frame, on a rig of two cameras: the keypoints of
\* the previous result are tracked first, in every camera; the corners then
\* detected in camera 0 get the ids that follow; only these are matched into
\* camera 1; the epipolar filter runs last, over tracked and new keypoints
\* alike.  A keypoint that existed before the frame is in camera 1 only if
\* tracking from camera 1 of the previous frame kept it there, also when
\* matching it from camera 0 would succeed.
C22_TrackFrameOrder ==
  (call # <<>> /\ call.proc = "processFrame" /\ "next" \in DOMAIN call
     /\ Len(results) = 2) =>
    LET prev == results[1].keypoints
        cur == results[2].keypoints
        fresh == call.n .. (call.n + call.next.n - 1)
        kept == [c \in 0 .. 1 |-> (DOMAIN prev[c]) \cap call.next.tracked[c]]
    IN  /\ FreshIds(2) = fresh
        /\ DOMAIN cur[0] = kept[0] \cup fresh
        /\ \A id \in DOMAIN cur[0] :
             cur[0][id].detected_by_opt_flow <=> id \in kept[0]
        /\ DOMAIN cur[1]
             = (kept[1] \cup (fresh \cap call.next.matching))
                 \ (call.next.bad \cap DOMAIN cur[0])
        /\ \A id \in DOMAIN cur[1] : cur[1][id].detected_by_opt_flow

\* The first frame detected a corner that was not matched into camera 1; the
\* second frame tracked it in camera 0, would match it into camera 1, and
\* detected and matched another corner.
C22_Witness ==
  /\ call # <<>> /\ call.proc = "processFrame" /\ "next" \in DOMAIN call
  /\ Len(results) = 2
  /\ DOMAIN results[1].keypoints[0] = {0}
  /\ DOMAIN results[1].keypoints[1] = {}
  /\ call.next.matching = {0, 1}
  /\ DOMAIN results[2].keypoints[0] = {0, 1}
  /\ DOMAIN results[2].keypoints[1] = {1}

\* C23. Frame counter: frame_counter is incremented exactly once for every
\* non-null bundle the worker pops: when the worker has dealt with k non-null
\* bundles, frame_counter equals k.
C23_FrameCounter ==
  frame_counter
    = Cardinality({i \in DOMAIN trace : trace[i].bundle # Null})

\* C24. Matching-guess offset: in trackPoints the offset is zero whenever
\* source and target camera are the same or the guess type is SAME_PIXEL,
\* and is the value of viewOffset otherwise; the forward track starts at the
\* source translation minus that offset, and the backward track starts at
\* the forward track's result plus the same offset.
C24_GuessOffset ==
  (call # <<>> /\ call.proc = "compute_func" /\ call.returned) =>
    LET g == call.given
        s == call.stages
    IN  /\ (g.cam1 = g.cam2 \/ g.guess_type = "SAME_PIXEL") => s.off = <<0, 0>>
        /\ (g.cam1 # g.cam2 /\ g.guess_type # "SAME_PIXEL")
             => s.off = g.view_offset
        /\ Plus(s.forward_start, s.off) = g.t1
        /\ Minus(s.backward_start, s.off) = Plus(s.forward_start, g.moved)

\* A match from camera 0 into camera 1 under a guess type that uses the
\* depth: the prior is one pixel left of the source, the forward track moves
\* one pixel down, and the backward track starts one pixel right of where
\* the forward track ended.
C24_Witness ==
  /\ call # <<>> /\ call.proc = "compute_func" /\ call.returned
  /\ call.given.cam1 = 0 /\ call.given.cam2 = 1
  /\ call.given.guess_type = "REPROJ_AVG_DEPTH"
  /\ call.given.t1 = <<2, 1>>
  /\ call.stages.off = <<1, 0>>
  /\ call.stages.forward_start = <<1, 1>>
  /\ call.given.moved = <<0, 1>>
  /\ call.stages.backward_start = <<2, 2>>

\* C25. Coarse-to-fine tracking: trackPoint visits the levels
\* optical_flow_levels, ..., 1, 0 in that order; it returns success iff at
\* every level the reference patch is valid and trackPointAtLevel succeeds;
\* after the first level that fails no finer level is visited; at every
\* visited level, the failing one included, the translation is divided by
\* 2^level before and multiplied by 2^level after, and the linear part is
\* changed by trackPointAtLevel only.
C25_CoarseToFine ==
  (call # <<>> /\ call.proc = "trackPoint" /\ call.returned) =>
    LET levels == call.optical_flow_levels
        log == call.left.log
        visited == Len(log)
    IN  /\ visited >= 1 /\ visited <= levels + 1
        /\ \A i \in 1 .. visited : log[i].level = levels - (i - 1)
        /\ \A i \in 1 .. (visited - 1) : log[i].patch_valid
        /\ call.left.patch_valid <=> (visited = levels + 1 /\ log[visited].patch_valid)
        /\ ~call.left.patch_valid => ~log[visited].patch_valid
        /\ \A i \in 1 .. visited :
             /\ log[i].called <=> call.valid[log[i].level]
             /\ log[i].patch_valid => log[i].called
             /\ log[i].before = IF i = 1 THEN call.transform ELSE log[i - 1].after
             /\ log[i].scaled.linear = log[i].before.linear
             /\ Multiplied(log[i].scaled, 2 ^ log[i].level) = log[i].before
             /\ ~log[i].called => log[i].tracked = log[i].scaled
             /\ log[i].after = Multiplied(log[i].tracked, 2 ^ log[i].level)
        /\ call.left.transform = log[visited].after

\* Three levels: the coarsest moves the translation by one of its pixels,
\* the middle one turns the warp by a quarter, and the patch of level 0 is
\* not valid: failure, with the translation four pixels off the start.
C25_Witness ==
  /\ call # <<>> /\ call.proc = "trackPoint" /\ call.returned
  /\ call.optical_flow_levels = 2
  /\ call.transform = [translation |-> <<16, 16>>, linear |-> 0]
  /\ Len(call.left.log) = 3
  /\ call.left.log[1].tracked.translation = <<5, 4>>
  /\ call.left.log[2].scaled.translation = <<10, 8>>
  /\ call.left.log[2].tracked.linear = 1
  /\ ~call.valid[0]
  /\ ~call.left.patch_valid
  /\ call.left.transform = [translation |-> <<20, 16>>, linear |-> 1]

\* C26. Per-level guards: trackPointAtLevel runs at most
\* optical_flow_max_iterations passes and returns failure as soon as one
\* pass fails, because the residual could not be sampled, a component of the
\* increment is not finite, the infinity norm of the increment is >= 10^6,
\* or the composed translation is not inside the image with a margin of two
\* pixels; a rejected increment is never composed onto the warp, and no
\* pass runs after a failed one.
C26_LevelGuards ==
  (call # <<>> /\ call.proc = "trackPointAtLevel" /\ call.returned) =>
    LET log == call.left.log
        ran == Len(log)
        o == call.outcome
        Before(i) == IF i = 1 THEN call.transform ELSE log[i - 1].transform
        Rejected(i) == \/ ~o[i].sampled
                       \/ ~o[i].inc.finite
                       \/ lpNormInfinity(o[i].inc) >= 1000000
        Failed(i) == \/ Rejected(i)
                     \/ ~InBounds(call.img_2, log[i].transform.translation, 2)
    IN  /\ ran <= call.optical_flow_max_iterations
        /\ \A i \in 1 .. ran :
             /\ log[i].composed <=> ~Rejected(i)
             /\ log[i].transform = IF Rejected(i) THEN Before(i)
                                   ELSE Compose(Before(i), o[i].inc)
        /\ \A i \in 1 .. (ran - 1) : ~Failed(i)
        /\ call.left.patch_valid
             <=> (ran = call.optical_flow_max_iterations
                    /\ \A i \in 1 .. ran : ~Failed(i))
        /\ ~call.left.patch_valid => (ran >= 1 /\ Failed(ran))
        /\ call.left.transform = IF ran = 0 THEN call.transform
                                 ELSE log[ran].transform

\* Three passes are allowed: the first moves the warp by a pixel, the second
\* computes an increment of norm 10^6, which is not composed, and the third
\* does not run.
C26_Witness ==
  /\ call # <<>> /\ call.proc = "trackPointAtLevel" /\ call.returned
  /\ call.optical_flow_max_iterations = 3
  /\ call.transform.translation = <<4, 4>>
  /\ call.outcome[1].sampled /\ call.outcome[1].inc.t = <<1, 0>>
  /\ call.outcome[2].sampled /\ call.outcome[2].inc.t = <<0, 1000000>>
  /\ call.outcome[3].sampled /\ call.outcome[3].inc.finite
  /\ Len(call.left.log) = 2
  /\ ~call.left.patch_valid
  /\ call.left.transform.translation = <<5, 4>>

\* C27. Parallel tracking loop: inside one trackPoints call every input
\* keypoint is processed by exactly one loop iteration, no key of the shared
\* result map is written by two iterations, the patch store is only read,
\* and the output map is, for every partition of the range and every
\* interleaving of the tasks, the map the loop run sequentially gives.
C27_ParallelLoop ==
  (call # <<>> /\ call.proc = "parallel_for") =>
    /\ \A i, j \in DOMAIN call.done : i # j => call.done[i] # call.done[j]
    /\ \A id \in DOMAIN call.writers : Cardinality(call.writers[id]) <= 1
    /\ call.patches = SourcePatches
    /\ call.returned =>
         /\ Range(call.done) = DOMAIN call.ids
         /\ call.keypoint_map_2
              = trackPoints(call.keypoint_map_1,
                            Written(call.found, MaxRecoveredDist2),
                            IF call.cam2 = 0 THEN 2 ELSE 1, call.cam2)

\* The range was split, the task of the upper part ran before the task of
\* the lower part, and both keypoints are in the map returned.
C27_Witness ==
  /\ call # <<>> /\ call.proc = "parallel_for" /\ call.returned
  /\ Cardinality(call.tasks) >= 2
  /\ Len(call.done) >= 2
  /\ call.done[1] > call.done[2]
  /\ {0, 1} \subseteq DOMAIN call.keypoint_map_2

\* C28. Emitted results are frozen: once a result has been pushed on the
\* output queue, no step of the worker changes that result (timestamp,
\* keypoint maps) or the input bundle it retains (images, depth_guess,
\* timing entries).
C28_EmittedFrozen ==
  [][\A tr \in Range(PushedResults) :
       /\ results'[tr] = results[tr]
       /\ bundles'[results[tr].input_images] = bundles[results[tr].input_images]]_vars

\* C29. Termination without a consumer: when no output queue is attached
\* the worker handles the null sentinel cleanly: it leaves its loop, having
\* pushed nothing and without a fault on the missing queue.
C29_CleanExitUnattached ==
  (~output_attached /\ trace # <<>> /\ trace[Len(trace)].bundle = Null)
    => (pc = "done" /\ output_queue = <<>>)

\* C30. Producer side of the stream protocol: feed_images pushes the
\* dataset's bundles in the order of the timestamps' indices; it pushes
\* fewer than the dataset holds only when the estimator has finished,
\* termination was requested or max_frames (> 0) bundles have been pushed,
\* and never more than max_frames (> 0); the null sentinel is pushed once,
\* as the last push, and feed_images does not return without it.
C30_Producer ==
  (call # <<>> /\ call.proc = "feed_images") =>
    LET pushed == Len(bundles)
        returned == call.at = "returned"
    IN  /\ \A k \in 1 .. pushed :
             /\ input_queue[k] = k
             /\ bundles[k].t_ns = TimeStamp(k)
        /\ pushed <= call.size
        /\ call.max_frames > 0 => pushed <= call.max_frames
        /\ Len(input_queue) = pushed + (IF returned THEN 1 ELSE 0)
        /\ returned => input_queue[pushed + 1] = Null
        /\ (returned /\ pushed < call.size)
             => \/ call.finished
                \/ call.terminate
                \/ call.max_frames > 0 /\ pushed = call.max_frames

\* A dataset of three timestamps and max_frames = 2: two bundles and the
\* sentinel were pushed, neither flag being set.
C30_Witness ==
  /\ call # <<>> /\ call.proc = "feed_images"
  /\ call.size = 3 /\ call.max_frames = 2
  /\ ~call.finished /\ ~call.terminate
  /\ call.at = "returned"
  /\ input_queue = <<1, 2, Null>>

====
